---- MODULE Spec2Model ----
(***************************************************************************)
(* git-hours-rs (src/main.rs): estimate the hours each author spent on a   *)
(* repository from the timestamps of the commits reachable from its        *)
(* branch heads.                                                           *)
(*                                                                         *)
(* The model follows main() step by step: the shallow-marker probe, the    *)
(* argument parse, gix::open, get_commit_times_by_author (reference        *)
(* listing, the explicit-stack walk, the per-author sort), the collection  *)
(* of (author, commits, hours) triples, their sort and the printing.       *)
(*                                                                         *)
(* Strings that the code matches by prefix (reference names) are sequences *)
(* of one-character strings.  Times are gix::date::Time.seconds; the f64   *)
(* arithmetic of estimate_hours is carried out exactly, in seconds, so a   *)
(* sum that is a half hour in exact arithmetic rounds up here, while the   *)
(* f64 sum of inexact terms may fall just below the half.  Branch          *)
(* references point at commits directly (head.id() of a symbolic           *)
(* reference is not modelled), and the values are far from the u32 and     *)
(* i64 limits.                                                             *)
(***************************************************************************)
EXTENDS Integers, Sequences, FiniteSets, TLC

\* ------------------------------------------------------------------ bounds

\* Commit identifiers are 1..NumCommits; a parent always has a smaller
\* identifier than its child (a commit names its parents by their hash, so
\* history is acyclic by construction).
NumCommits == 3

Commits == 1..NumCommits

\* Author emails; NoAuthor stands for a commit whose author or time does not
\* parse (commit.author() or author.time() is Err).
Emails == {"a", "b"}
NoAuthor == "none"

\* Commit times, in seconds: minutes 0, 30 and 500.
TimeValues == {0, 1800, 30000}

\* Values of --max-commit-diff and --first-commit-add, in minutes.
DiffValues == {30, 120}
AddValues == {60, 120}

VARIABLES
    env,              \* the process's surroundings: cwd, argv
    repo,             \* the repository at args.path (read-only input)
    args,             \* the parsed Args
    pc,               \* position in main / get_commit_times_by_author
    heads,            \* the rest of the `heads` iterator (line 61)
    stack,            \* Vec<ObjectId>, top at the end
    visited,          \* HashSet<ObjectId>
    times_by_author,  \* HashMap<BString, Vec<Time>>
    pending,          \* keys of the map the for loop of main has not yielded
    authors,          \* Vec<(author, commits, hours)>
    output,           \* the lines printed so far
    expanded,         \* history: how often each commit passed line 73
    pushes            \* history: how many identifiers were pushed on a stack

vars == <<env, repo, args, pc, heads, stack, visited, times_by_author,
          pending, authors, output, expanded, pushes>>

\* ----------------------------------------------------------------- strings

\* "refs/heads/"
RefsHeads == <<"r", "e", "f", "s", "/", "h", "e", "a", "d", "s", "/">>

\* "refs/tags/"
RefsTags == <<"r", "e", "f", "s", "/", "t", "a", "g", "s", "/">>

\* str::starts_with, which is what Platform::prefixed filters by.
StartsWith(s, p) ==
    /\ Len(p) <= Len(s)
    /\ SubSeq(s, 1, Len(p)) = p

\* Option<String>: <<>> is None, <<s>> is Some(s).
None == <<>>
Some(s) == <<s>>

\* let prefix = if let Some(branch) = &args.branch { format!("refs/heads/{branch}") }
\*              else { "refs/heads/".to_string() };
Prefix(branch) ==
    IF branch # None THEN RefsHeads \o branch[1] ELSE RefsHeads

\* refs.prefixed(prefix): the references whose full name starts with prefix,
\* in the store's order.
RECURSIVE Prefixed(_, _)
Prefixed(rs, prefix) ==
    IF rs = <<>> THEN <<>>
    ELSE IF StartsWith(Head(rs).name, prefix)
         THEN <<Head(rs)>> \o Prefixed(Tail(rs), prefix)
         ELSE Prefixed(Tail(rs), prefix)

\* ------------------------------------------------------------ the commits

\* repo.find_commit(id) is Ok
Resolves(id) == id \in repo.resolvable

\* commit.parent_ids()
ParentIds(id) == repo.parents[id]

\* commit.author() and author.time() are both Ok
AuthorReadable(id) == repo.author[id] # NoAuthor

\* The commit's timestamp is attributed (lines 80-84); num_parents is what
\* line 78 measured.
AttributesMutant(id, num_parents) == AuthorReadable(id)
Attributes(id, num_parents) ==
    LET is_merge == num_parents > 1
    IN  /\ AuthorReadable(id)
        /\ (~is_merge \/ args.merge_commits)

\* What stack.extend(commit.parent_ids()) appends (line 77).
PushedParentsMutant(id) ==
    IF Len(ParentIds(id)) > 1 /\ ~args.merge_commits THEN <<>> ELSE ParentIds(id)
PushedParents(id) == ParentIds(id)

\* if visited.contains(&commit.id) { continue; } (line 68)
AlreadyVisitedMutant(id) == FALSE
AlreadyVisited(id) == id \in visited

\* ----------------------------------------------------------------- sorting

\* Ord for Time as far as the model carries it: by seconds.
TimeLe(x, y) == x <= y

\* times.sort(): a stable sort; insertion sort, inserting after equal elements.
RECURSIVE InsertSorted(_, _)
InsertSorted(s, x) ==
    IF s = <<>> THEN <<x>>
    ELSE IF TimeLe(Head(s), x) THEN <<Head(s)>> \o InsertSorted(Tail(s), x)
         ELSE <<x>> \o s

RECURSIVE SortTimesOf(_)
SortTimesMutant(s) == s
SortTimesOf(s) ==
    IF s = <<>> THEN <<>>
    ELSE InsertSorted(SortTimesOf(SubSeq(s, 1, Len(s) - 1)), s[Len(s)])

\* The key of authors.sort_by_key(|(_, _, time)| *time)
SortKeyMutant(t) == 0 - t[3]
SortKey(t) == t[3]

RECURSIVE InsertByKey(_, _)
InsertByKey(s, x) ==
    IF s = <<>> THEN <<x>>
    ELSE IF SortKey(Head(s)) <= SortKey(x)
         THEN <<Head(s)>> \o InsertByKey(Tail(s), x)
         ELSE <<x>> \o s

RECURSIVE SortByKey(_)
SortByKey(s) ==
    IF s = <<>> THEN <<>>
    ELSE InsertByKey(SortByKey(SubSeq(s, 1, Len(s) - 1)), s[Len(s)])

\* --------------------------------------------------------- estimate_hours

\* let mut hours = 10f64;
BaseHours == 10

\* The body of `for window in times.windows(2)`: what one pair adds, in
\* seconds.  diff_in_minutes < max_commit_diff is seconds < 60 * max_commit_diff.
WindowAddSubtracts(a, time, next_time) ==
    LET diff == next_time - time
    IN  IF diff < 60 * a.max_commit_diff
        THEN diff
        ELSE 0 - 60 * a.first_commit_add
WindowAddMutant(a, time, next_time) ==
    LET diff == next_time - time
    IN  IF diff <= 60 * a.max_commit_diff
        THEN diff
        ELSE 60 * a.first_commit_add
WindowAdd(a, time, next_time) ==
    LET diff == next_time - time
    IN  IF diff < 60 * a.max_commit_diff
        THEN diff
        ELSE 60 * a.first_commit_add

RECURSIVE SumWindows(_, _, _)
SumWindows(a, times, acc) ==
    IF Len(times) < 2 THEN acc
    ELSE SumWindows(a, Tail(times), acc + WindowAdd(a, times[1], times[2]))

\* f64::round of a non-negative number of hours given in seconds: halves go
\* away from zero.
RoundMutant(seconds) == seconds \div 3600
Round(seconds) == (seconds + 1800) \div 3600

estimate_hours(a, times) ==
    IF Len(times) < 2 THEN 0
    ELSE Round(SumWindows(a, times, BaseHours * 3600))

\* ------------------------------------------------------------------ inputs

\* Sequences of at most two distinct identifiers below c: the parents a
\* commit c may name, in the order the commit object lists them.
ParentChoices(c) ==
    ({<<>>} \cup {<<p>> : p \in 1..(c - 1)})
        \cup {pq \in (1..(c - 1)) \X (1..(c - 1)) : pq[1] # pq[2]}

\* The histories of n commits: for each commit, its parents.
RECURSIVE GraphsOf(_)
GraphsOf(n) ==
    IF n = 0 THEN {<<>>}
    ELSE {Append(g, ps) : g \in GraphsOf(n - 1), ps \in ParentChoices(n)}

Graphs == GraphsOf(NumCommits)

\* c's only parent is c - 1.
Chain == [c \in Commits |-> IF c = 1 THEN <<>> ELSE <<c - 1>>]

\* A reference as the iterator yields it: Ok with a name and a target, or Err.
Ref(name, target, ok) == [name |-> name, target |-> target, ok |-> ok]

BranchM == RefsHeads \o <<"m">>
BranchMx == RefsHeads \o <<"m", "x">>
TagM == RefsTags \o <<"m">>

DefaultEnv == [cwd_marker |-> "absent", argv_ok |-> TRUE]

DefaultArgs ==
    [max_commit_diff |-> 120, first_commit_add |-> 120, merge_commits |-> TRUE,
     path_is_cwd |-> TRUE, branch |-> None]

Repo(refs, parents, resolvable, author, time) ==
    [shallow |-> FALSE, opens |-> TRUE, lists |-> TRUE, refs |-> refs,
     parents |-> parents, resolvable |-> resolvable, author |-> author,
     time |-> time]

AlternatingAuthors == [c \in Commits |-> IF c % 2 = 1 THEN "a" ELSE "b"]
RisingTimes == [c \in Commits |-> 1800 * c]

\* Every commit graph, any commits missing from the object database, one or
\* two branches, merge commits counted or not.
InitWalk ==
    /\ env = DefaultEnv
    /\ \E m \in BOOLEAN :
           args = [DefaultArgs EXCEPT !.merge_commits = m]
    /\ \E g \in Graphs, missing \in SUBSET Commits, h \in Commits,
          unreadable \in {{}, {NumCommits}, {1}} :
           repo = Repo(<<Ref(BranchM, NumCommits, TRUE), Ref(BranchMx, h, TRUE)>>,
                       [c \in Commits |-> IF c \in missing THEN <<>> ELSE g[c]],
                       Commits \ missing,
                       [c \in Commits |-> IF c \in unreadable THEN NoAuthor
                                          ELSE AlternatingAuthors[c]],
                       RisingTimes)

\* A linear history with every choice of authors, times and thresholds.
InitAttr ==
    /\ env = DefaultEnv
    /\ \E d \in DiffValues, f \in AddValues :
           args = [DefaultArgs EXCEPT !.max_commit_diff = d, !.first_commit_add = f]
    /\ \E au \in [Commits -> Emails \cup {NoAuthor}], ti \in [Commits -> TimeValues] :
           repo = Repo(<<Ref(BranchM, NumCommits, TRUE)>>, Chain, Commits, au, ti)

\* A linear history under every choice of references and of --branch.
RefStates == {"absent", "failing", "tip", "root"}

RefOf(name, st) ==
    IF st = "absent" THEN <<>>
    ELSE <<Ref(name, IF st = "root" THEN 1 ELSE NumCommits, st # "failing")>>

InitRefs ==
    /\ env = DefaultEnv
    /\ \E b \in {None, Some(<<"m">>), Some(<<"x">>)} :
           args = [DefaultArgs EXCEPT !.branch = b]
    /\ \E s1, s2, s3 \in RefStates :
           repo = Repo(RefOf(BranchM, s1) \o RefOf(BranchMx, s2) \o RefOf(TagM, s3),
                       Chain, Commits, AlternatingAuthors, RisingTimes)

\* One repository under every surrounding: the marker in the working
\* directory, the command line, --path, and what the repository at --path is.
InitEnv ==
    /\ \E mk \in {"absent", "present", "error"}, ok \in BOOLEAN :
           env = [cwd_marker |-> mk, argv_ok |-> ok]
    /\ \E here \in BOOLEAN :
           args = [DefaultArgs EXCEPT !.path_is_cwd = here]
    /\ \E sh, op, li \in BOOLEAN :
           /\ (args.path_is_cwd /\ env.cwd_marker # "error")
                  => (sh <=> env.cwd_marker = "present")
           /\ repo = [Repo(<<Ref(BranchM, NumCommits, TRUE)>>, Chain, Commits,
                           AlternatingAuthors, RisingTimes)
                      EXCEPT !.shallow = sh, !.opens = op, !.lists = li]

EmptyMap == [e \in {} |-> <<>>]

Init ==
    /\ InitWalk \/ InitAttr \/ InitRefs \/ InitEnv
    /\ pc = "start"
    /\ heads = <<>>
    /\ stack = <<>>
    /\ visited = {}
    /\ times_by_author = EmptyMap
    /\ pending = {}
    /\ authors = <<>>
    /\ output = <<>>
    /\ expanded = [c \in Commits |-> 0]
    /\ pushes = 0

\* -------------------------------------------------------------------- main

inputs == <<env, repo, args>>
walk == <<heads, stack, visited, times_by_author, expanded, pushes>>
report == <<pending, authors, output>>

\* if std::fs::exists(".git/shallow")? { bail!(...) }
CheckShallow ==
    /\ pc = "start"
    /\ pc' = CASE env.cwd_marker = "error" -> "fatal"
               [] env.cwd_marker = "present" -> "bail_shallow"
               [] OTHER -> "parse"
    /\ UNCHANGED <<inputs, walk, report>>

\* let args = Args::parse();  clap ends the process on a bad command line.
ParseArgs ==
    /\ pc = "parse"
    /\ pc' = IF env.argv_ok THEN "open" ELSE "exit"
    /\ UNCHANGED <<inputs, walk, report>>

\* let repo = gix::open(&args.path)?;
OpenRepo ==
    /\ pc = "open"
    /\ pc' = IF repo.opens THEN "refs" ELSE "fatal"
    /\ UNCHANGED <<inputs, walk, report>>

\* ---------------------------------------------- get_commit_times_by_author

\* Lines 51-60: list the references, narrow them, create the two collections.
ListRefs ==
    /\ pc = "refs"
    /\ IF repo.lists
       THEN /\ heads' = Prefixed(repo.refs, Prefix(args.branch))
            /\ pc' = "heads"
       ELSE /\ heads' = heads
            /\ pc' = "fatal"
    /\ visited' = {}
    /\ times_by_author' = EmptyMap
    /\ UNCHANGED <<inputs, stack, expanded, pushes, report>>

\* heads.filter_map(|h| h.ok()) drops a reference that failed to load.
SkipFailedHead ==
    /\ pc = "heads"
    /\ heads # <<>>
    /\ ~Head(heads).ok
    /\ heads' = Tail(heads)
    /\ UNCHANGED <<inputs, pc, stack, visited, times_by_author, expanded, pushes,
                   report>>

\* let mut stack = vec![head.id()];
StartHead ==
    /\ pc = "heads"
    /\ heads # <<>>
    /\ Head(heads).ok
    /\ stack' = <<Head(heads).target>>
    /\ pushes' = pushes + 1
    /\ heads' = Tail(heads)
    /\ pc' = "walk"
    /\ UNCHANGED <<inputs, visited, times_by_author, expanded, report>>

\* The for loop over the heads ends.
HeadsDone ==
    /\ pc = "heads"
    /\ heads = <<>>
    /\ pc' = "sort"
    /\ UNCHANGED <<inputs, walk, report>>

Top == stack[Len(stack)]
Popped == SubSeq(stack, 1, Len(stack) - 1)

\* while let Some(id) = stack.pop() finds the stack empty.
WalkDone ==
    /\ pc = "walk"
    /\ stack = <<>>
    /\ pc' = "heads"
    /\ UNCHANGED <<inputs, walk, report>>

\* let Ok(commit) = repo.find_commit(id) else { continue; };
PopUnresolvedMutant ==
    /\ pc = "walk"
    /\ stack # <<>>
    /\ ~Resolves(Top)
    /\ pc' = "fatal"
    /\ UNCHANGED <<inputs, walk, report>>
PopUnresolved ==
    /\ pc = "walk"
    /\ stack # <<>>
    /\ ~Resolves(Top)
    /\ stack' = Popped
    /\ UNCHANGED <<inputs, pc, heads, visited, times_by_author, expanded, pushes,
                   report>>

\* if visited.contains(&commit.id) { continue; }
PopVisited ==
    /\ pc = "walk"
    /\ stack # <<>>
    /\ Resolves(Top)
    /\ AlreadyVisited(Top)
    /\ stack' = Popped
    /\ UNCHANGED <<inputs, pc, heads, visited, times_by_author, expanded, pushes,
                   report>>

\* times_by_author with time pushed on author's Vec, created if absent (89-93).
PushTime(map, author, time) ==
    [e \in DOMAIN map \cup {author} |->
        IF e \in DOMAIN map
        THEN IF e = author THEN Append(map[e], time) ELSE map[e]
        ELSE <<time>>]

\* Lines 73-95: the first visit of a commit.
Expand ==
    /\ pc = "walk"
    /\ stack # <<>>
    /\ Resolves(Top)
    /\ ~AlreadyVisited(Top)
    /\ LET id == Top
           stack_len == Len(Popped)
           extended == Popped \o PushedParents(id)
           num_parents == Len(extended) - stack_len
       IN  /\ visited' = visited \cup {id}
           /\ stack' = extended
           /\ times_by_author' =
                  IF Attributes(id, num_parents)
                  THEN PushTime(times_by_author, repo.author[id], repo.time[id])
                  ELSE times_by_author
           /\ expanded' = [expanded EXCEPT ![id] = @ + 1]
           /\ pushes' = pushes + num_parents
    /\ UNCHANGED <<inputs, pc, heads, report>>

\* Lines 99-103: sort every author's times and return the map to main, whose
\* for loop starts to iterate it.
SortTimes ==
    /\ pc = "sort"
    /\ times_by_author' =
           [e \in DOMAIN times_by_author |-> SortTimesOf(times_by_author[e])]
    /\ pending' = DOMAIN times_by_author
    /\ pc' = "collect"
    /\ UNCHANGED <<inputs, heads, stack, visited, expanded, pushes, authors, output>>

\* -------------------------------------------------------------- the report

\* authors.push((author, times.len(), estimate_hours(&args, &times)));
\* a HashMap yields its entries in no particular order.
CollectAuthor ==
    /\ pc = "collect"
    /\ \E author \in pending :
           LET times == times_by_author[author]
           IN  /\ authors' = Append(authors,
                                    <<author, Len(times), estimate_hours(args, times)>>)
               /\ pending' = pending \ {author}
    /\ UNCHANGED <<inputs, pc, walk, output>>

\* authors.sort_by_key(|(_, _, time)| *time);
SortAuthors ==
    /\ pc = "collect"
    /\ pending = {}
    /\ authors' = SortByKey(authors)
    /\ pc' = "print"
    /\ UNCHANGED <<inputs, walk, pending, output>>

\* println!("{author}: {} commits, {} hours", commits, time);
Line(t) == <<t[1], ": ", t[2], " commits, ", t[3], " hours">>

PrintLine ==
    /\ pc = "print"
    /\ authors # <<>>
    /\ output' = Append(output, Line(Head(authors)))
    /\ authors' = Tail(authors)
    /\ UNCHANGED <<inputs, pc, walk, pending>>

\* Ok(())
Finish ==
    /\ pc = "print"
    /\ authors = <<>>
    /\ pc' = "done"
    /\ UNCHANGED <<inputs, walk, report>>

Next ==
    \/ CheckShallow
    \/ ParseArgs
    \/ OpenRepo
    \/ ListRefs
    \/ SkipFailedHead
    \/ StartHead
    \/ HeadsDone
    \/ WalkDone
    \/ PopUnresolved
    \/ PopVisited
    \/ Expand
    \/ SortTimes
    \/ CollectAuthor
    \/ SortAuthors
    \/ PrintLine
    \/ Finish

Spec == Init /\ [][Next]_vars

\* main runs to its end: a step that can be taken is taken.
FairSpec == Spec /\ WF_vars(Next)

\* ---------------------------------------------------------------- notions

\* The starting references: those the narrowed iterator yields as Ok.
StartRefs ==
    LET hs == Prefixed(repo.refs, Prefix(args.branch))
    IN  {hs[i] : i \in {j \in DOMAIN hs : hs[j].ok}}

StartIds == {h.target : h \in StartRefs}

\* The identifiers reached from S by following the parents of commits that
\* exist in the object database.
RECURSIVE Closure(_)
Closure(S) ==
    LET more == S \cup UNION {{repo.parents[c][i] : i \in DOMAIN repo.parents[c]} :
                               c \in S \cap repo.resolvable}
    IN  IF more = S THEN S ELSE Closure(more)

\* The commits reachable from the start set.
Reachable == Closure(StartIds) \cap repo.resolvable

MergeCommit(c) == Len(repo.parents[c]) > 1

\* A qualifying commit: author and time readable, and not a merge unless
\* merges are counted.
Qualifying(c) ==
    /\ repo.author[c] # NoAuthor
    /\ (~MergeCommit(c) \/ args.merge_commits)

QualifyingOf(e) == {c \in Reachable : Qualifying(c) /\ repo.author[c] = e}

RECURSIVE SumOver(_, _)
SumOver(f, S) ==
    IF S = {} THEN 0
    ELSE LET x == CHOOSE y \in S : TRUE IN f[x] + SumOver(f, S \ {x})

\* How many timestamps the map holds.
Attributed ==
    SumOver([e \in DOMAIN times_by_author |-> Len(times_by_author[e])],
            DOMAIN times_by_author)

\* How many stack entries name c at the end of a walk that visits V: one per
\* starting reference at c and one per visited child.
Arrivals(c, V) ==
    Cardinality({h \in StartRefs : h.target = c})
        + Cardinality({<<d, i>> \in V \X Commits :
                          i \in DOMAIN repo.parents[d] /\ repo.parents[d][i] = c})

Walking == {"heads", "walk"}
AfterWalk == {"sort", "collect", "print", "done"}
AfterSort == {"collect", "print", "done"}
Stopped == {"done", "fatal", "bail_shallow", "exit"}

Occurrences(s, x) == Cardinality({i \in DOMAIN s : s[i] = x})
Ascending(s) == \A i \in 1..(Len(s) - 1) : s[i] <= s[i + 1]

\* ------------------------------------------------------------------ claims

\* C1: every commit reachable from the start set is inserted into the visited
\* set and expanded exactly once over the whole run, however many heads or
\* merge paths reach it, and no other commit is; a commit popped again is
\* discarded: the map holds one timestamp per visited qualifying commit.
C1_ExpandedExactlyOnce ==
    /\ \A c \in Commits : expanded[c] = IF c \in visited THEN 1 ELSE 0
    /\ pc \in Walking \cup AfterWalk =>
           Attributed = Cardinality({c \in visited : Qualifying(c)})
    /\ pc \in AfterWalk => visited = Reachable

C1_Witness ==
    /\ pc = "done"
    /\ \E c \in visited : Arrivals(c, visited) >= 2 /\ Qualifying(c)

\* C2: the visited set is the set of reachable commits whether or not merge
\* commits are counted: the parents of a visited merge commit are visited
\* too, and not counting merges removes exactly the merge commits' timestamps
\* from the map.
C2_MergeFilterKeepsWalk ==
    pc \in AfterWalk =>
        /\ visited = Reachable
        /\ \A c \in visited : \A i \in DOMAIN repo.parents[c] :
               Resolves(repo.parents[c][i]) => repo.parents[c][i] \in visited
        /\ Attributed =
               Cardinality({c \in Reachable : repo.author[c] # NoAuthor})
                   - (IF args.merge_commits THEN 0
                      ELSE Cardinality({c \in Reachable :
                                           repo.author[c] # NoAuthor /\ MergeCommit(c)}))

C2_Witness ==
    /\ pc = "done"
    /\ ~args.merge_commits
    /\ \E c \in visited :
           /\ MergeCommit(c)
           /\ repo.author[c] # NoAuthor
           /\ \E i \in DOMAIN repo.parents[c] :
                  /\ repo.parents[c][i] \in visited
                  /\ Qualifying(repo.parents[c][i])

\* C3: when get_commit_times_by_author has returned, each email's sequence
\* holds exactly the timestamps of that email's qualifying commits, one per
\* commit, an email without a qualifying commit has no entry, and every
\* sequence is ascending.
C3_TimesPerAuthor ==
    pc \in AfterSort =>
        \A e \in Emails \cup DOMAIN times_by_author :
            /\ e \in DOMAIN times_by_author <=> QualifyingOf(e) # {}
            /\ e \in DOMAIN times_by_author =>
                   /\ Len(times_by_author[e]) = Cardinality(QualifyingOf(e))
                   /\ \A t \in {repo.time[c] : c \in Commits} :
                          Occurrences(times_by_author[e], t)
                              = Cardinality({c \in QualifyingOf(e) : repo.time[c] = t})
                   /\ Ascending(times_by_author[e])

C3_Witness ==
    /\ pc = "collect"
    /\ \E e \in DOMAIN times_by_author :
           /\ Len(times_by_author[e]) >= 2
           /\ times_by_author[e][1] < times_by_author[e][Len(times_by_author[e])]
    /\ \E e \in Emails : e \notin DOMAIN times_by_author

\* The gap, in seconds, between the i-th timestamp and the next.
Gap(times, i) == times[i + 1] - times[i]

\* What the i-th pair contributes, in seconds, as the heuristic states it.
Contribution(times, i) ==
    IF Gap(times, i) < 60 * args.max_commit_diff
    THEN Gap(times, i)
    ELSE 60 * args.first_commit_add

RECURSIVE TotalSeconds(_, _)
TotalSeconds(times, n) ==
    IF n = 0 THEN 10 * 3600
    ELSE TotalSeconds(times, n - 1) + Contribution(times, n)

\* h is an integer nearest to seconds / 3600.
NearestHour(h, seconds) ==
    /\ 2 * (3600 * h - seconds) <= 3600
    /\ 2 * (seconds - 3600 * h) <= 3600

HasSessionBoundary(times) ==
    \E i \in 1..(Len(times) - 1) : Gap(times, i) >= 60 * args.max_commit_diff

\* Values of first_commit_add to compare, in minutes.
AddRange == AddValues \cup {0, 1, 90, 1000}

WithAdd(f) == [args EXCEPT !.first_commit_add = f]

\* C5: for an author's sorted timestamps with at least one session boundary,
\* a larger first_commit_add never gives a smaller estimate.
C5_MonotoneInFirstCommitAdd ==
    pc \in AfterSort =>
        \A e \in DOMAIN times_by_author :
            HasSessionBoundary(times_by_author[e]) =>
                \A a, b \in AddRange :
                    a <= b => estimate_hours(WithAdd(a), times_by_author[e])
                                  <= estimate_hours(WithAdd(b), times_by_author[e])

C5_Witness ==
    /\ pc = "collect"
    /\ \E e \in DOMAIN times_by_author :
           /\ HasSessionBoundary(times_by_author[e])
           /\ estimate_hours(WithAdd(60), times_by_author[e])
                  < estimate_hours(WithAdd(120), times_by_author[e])

\* C6: a shallow repository at --path is never opened or walked and no
\* report line is printed for it.
C6_ShallowRejected ==
    repo.shallow =>
        /\ pc \notin {"refs"} \cup Walking \cup AfterWalk
        /\ output = <<>>

\* C7: with --branch B only refs/heads/B starts a walk, without it every
\* reference under refs/heads/ does, and no match gives an empty map and no
\* error.
C7_BranchIsExact ==
    pc \in Walking \cup AfterWalk =>
        /\ args.branch # None =>
               \A h \in StartRefs : h.name = RefsHeads \o args.branch[1]
        /\ args.branch = None =>
               StartRefs = {repo.refs[i] : i \in {j \in DOMAIN repo.refs :
                                /\ repo.refs[j].ok
                                /\ StartsWith(repo.refs[j].name, RefsHeads)}}
        /\ (StartRefs = {} /\ pc \in AfterWalk) => times_by_author = EmptyMap

\* The author, the count and the hours a printed line carries.
LineAuthor(l) == l[1]
LineCommits(l) == l[3]
LineHours(l) == l[5]

\* C8: a run that ends normally has printed exactly one line per author with
\* a qualifying commit, with the author's number of commits and estimated
\* hours, in ascending order of hours.
C8_Report ==
    pc = "done" =>
        /\ {LineAuthor(output[i]) : i \in DOMAIN output}
               = {e \in Emails : QualifyingOf(e) # {}}
        /\ \A i, j \in DOMAIN output :
               LineAuthor(output[i]) = LineAuthor(output[j]) => i = j
        /\ \A i \in DOMAIN output :
               /\ LineCommits(output[i]) = Cardinality(QualifyingOf(LineAuthor(output[i])))
               /\ LineHours(output[i])
                      = estimate_hours(args, times_by_author[LineAuthor(output[i])])
        /\ \A i \in 1..(Len(output) - 1) :
               LineHours(output[i]) <= LineHours(output[i + 1])

C8_Witness ==
    /\ pc = "done"
    /\ Len(output) = 2
    /\ LineHours(output[1]) < LineHours(output[2])
    /\ LineCommits(output[2]) >= 2

\* C9: popping an identifier that does not resolve changes neither the
\* visited set nor the map, pushes nothing and leaves the walk running; the
\* run ends normally with every commit reachable through resolvable commits
\* visited and, when it qualifies, attributed.
C9_UnresolvedSkipped ==
    /\ [][(pc = "walk" /\ stack # <<>> /\ ~Resolves(Top)) =>
              /\ pc' = "walk"
              /\ stack' = Popped
              /\ visited' = visited
              /\ times_by_author' = times_by_author
              /\ heads' = heads]_vars
    /\ [](pc \in AfterSort =>
              \A c \in Reachable :
                  /\ c \in visited
                  /\ Qualifying(c) =>
                         /\ repo.author[c] \in DOMAIN times_by_author
                         /\ Occurrences(times_by_author[repo.author[c]], repo.time[c]) >= 1)

C9_Witness ==
    /\ pc = "done"
    /\ output # <<>>
    /\ \E c \in visited :
           /\ Len(repo.parents[c]) = 2
           /\ ~Resolves(repo.parents[c][2])
           /\ repo.parents[c][1] \in visited
           /\ Qualifying(repo.parents[c][1])

\* The parent entries of the commits in the object database.
ParentEntries ==
    SumOver([c \in Commits |-> Len(repo.parents[c])], repo.resolvable)

\* C10: the run stops, every walk ends with an empty stack, and the number
\* of identifiers pushed never exceeds the number of starting references
\* plus the parent entries of the distinct commits.
C10_WalkTerminates ==
    /\ <>(pc \in Stopped)
    /\ [](pushes <= Cardinality(StartRefs) + ParentEntries)
    /\ [][(pc = "walk" /\ pc' # "walk") => (stack = <<>> /\ pc' = "heads")]_vars

C10_Witness ==
    /\ pc = "done"
    /\ pushes > Cardinality(visited)
    /\ \E c \in Commits : ~Resolves(c) /\ Arrivals(c, visited) >= 1
    /\ \E c \in visited : Arrivals(c, visited) >= 2

====
